---- MODULE Spec2Model ----
(***************************************************************************)
(* EarthMC tracker: the history-snapshot helpers (browser storage and the  *)
(* gist snapshot pipeline) and the polling screens.                        *)
(*                                                                         *)
(*   Spec         saves into browser storage and workflow runs on the gist *)
(*   SpecBrowser  a visit of ServerStatus: guarded saves, history loads    *)
(*   SpecStatus   ServerStatus: mount, intervals, requests, unmount        *)
(*   SpecNation   NationList: its requests and controls                    *)
(*   SpecTown     TownBrowser: its requests and controls                   *)
(*   SpecPlayer   PlayerLookup in its three versions: searches             *)
(*   SpecOnline   ServerStatus: its list of online players                 *)
(*                                                                         *)
(* Time is counted in seconds since the epoch.  A date string              *)
(* "YYYY-MM-DD" is modelled by its UTC day number, a timestamp string by   *)
(* the second it denotes.                                                  *)
(***************************************************************************)
EXTENDS Integers, Sequences, FiniteSets, Bags, TLC

VARIABLES
    now,          \* Date.now() / date -u, in seconds
    helper,       \* which '@/lib/dataStorage' the build bundles: "ds" | "gl"
    ls,           \* browser localStorage: [hist, lastSave]
    lsOkTimes,    \* history: when the last two saves of saveCurrentStats completed
    gist,         \* the gist file earthmc-stats.json
    pipe,         \* the workflow run: [pc, attempts, out, current, updated]
    serverData,   \* ServerStatus state: <<>> (null) or <<stats>>
    histLoad,     \* loadHistoricalData: "idle" | "pending" (awaiting the gist)
    last7,        \* what getLast7Days last returned (<<>> before any call)
    historicalData, \* ServerStatus state: the chart rows
    mounted,      \* ServerStatus is mounted
    timers,       \* its setInterval registry: [interval, timer], <<>> or <<due>>
    currentTime,  \* ServerStatus state
    chain,        \* initializeData: "staff" (awaiting loadStaffList) | "done"
    fetches,      \* fetchServerData calls in flight, counted by what they await
    polls,        \* history: fetchServerData calls the interval has started
    loading,      \* ServerStatus state
    error,        \* ServerStatus state: <<>> (null) or <<message>>
    topTowns,     \* ServerStatus state
    staffList,    \* ServerStatus state: "empty" | "knownStaff" | "fallbackStaff"
    updatedAfterUnmount, \* history: a setter was called after unmount
    nationList,   \* NationList state, a record by the names of its useState
    nationRequests, \* NationList: the bag of its calls in flight
    townBrowser,  \* TownBrowser state, a record by the names of its useState
    townRequests, \* TownBrowser: the bag of its calls in flight
    playerLookup, \* PlayerLookup state, a record by the names of its useState
    playerRequests, \* PlayerLookup: the bag of its searches in flight
    onlineList,   \* ServerStatus state of the online-player list
    onlineRequests \* ServerStatus: the bag of the list's calls in flight

storeVars == <<now, helper, ls, lsOkTimes, gist, pipe>>
browserVars == <<serverData, histLoad, last7, historicalData>>
statusVars == <<mounted, timers, currentTime, chain, fetches, polls, loading,
                error, topTowns, staffList, updatedAfterUnmount>>
nationVars == <<nationList, nationRequests>>
townVars == <<townBrowser, townRequests>>
playerVars == <<playerLookup, playerRequests>>
onlineVars == <<onlineList, onlineRequests>>
screenVars == <<statusVars, nationVars, townVars, playerVars, onlineVars>>

vars == <<storeVars, browserVars, screenVars>>

----------------------------------------------------------------------------
(* Bounds and program constants *)

MaxDays == 1          \* days the clock may advance past the first day
MaxSlot == 2          \* half-hour slots enumerated after each midnight

KeepDays == 30        \* slice(-30), .[-30:]
WeekDays == 7         \* for (let i = 6; i >= 0; i--)
RetryCount == 3       \* for i in {1..3}

HourSec == 60 * 60
DaySec == 24 * HourSec
HalfHourSec == 30 * 60

FirstDay == KeepDays + 1

\* stats objects handed to saveToday / fetched by the pipeline
StatsInputs ==
    { [residents |-> 100, towns |-> 10, nations |-> 5, onlinePlayers |-> 7],
      [residents |-> 101, towns |-> 11, nations |-> 5, onlinePlayers |-> 0] }

----------------------------------------------------------------------------
(* Dates *)

\* new Date(t).toISOString().split('T')[0]  /  date -u +%Y-%m-%d
DateOf(t) == t \div DaySec

\* new Date(dateStr).getTime()
DateTime(d) == d * DaySec

\* date.setDate(date.getDate() - i); date.toISOString().split('T')[0]
DateDaysAgo(t, i) == DateOf(t - i * DaySec)

----------------------------------------------------------------------------
(* Array helpers *)

\* Array.prototype.findIndex on s.date === d; 0 stands for -1
FindIndex(stats, d) ==
    IF \E i \in 1..Len(stats) : stats[i].date = d
    THEN CHOOSE i \in 1..Len(stats) :
            /\ stats[i].date = d
            /\ \A j \in 1..(i - 1) : stats[j].date # d
    ELSE 0

\* Array.prototype.find on s.date === d; <<>> stands for undefined
Find(stats, d) ==
    IF FindIndex(stats, d) = 0 THEN <<>> ELSE <<stats[FindIndex(stats, d)]>>

RECURSIVE InsertByDate(_, _)
InsertByDate(sorted, e) ==
    IF sorted = <<>> THEN <<e>>
    ELSE IF DateTime(sorted[Len(sorted)].date) - DateTime(e.date) > 0
         THEN Append(InsertByDate(SubSeq(sorted, 1, Len(sorted) - 1), e),
                     sorted[Len(sorted)])
         ELSE Append(sorted, e)

\* .sort((a, b) => new Date(a.date).getTime() - new Date(b.date).getTime()),
\* a stable sort; jq sort_by(.date) orders the same strings the same way
RECURSIVE SortByDate(_)
SortByDate(stats) ==
    IF stats = <<>> THEN <<>>
    ELSE InsertByDate(SortByDate(SubSeq(stats, 1, Len(stats) - 1)),
                      stats[Len(stats)])

\* .slice(-n)  /  .[-n:]
LastN(stats, n) ==
    IF Len(stats) <= n THEN stats
    ELSE SubSeq(stats, Len(stats) - n + 1, Len(stats))

DatesOf(stats) == { stats[i].date : i \in 1..Len(stats) }

NoDuplicates(stats) ==
    \A i, j \in 1..Len(stats) : stats[i].date = stats[j].date => i = j

SortedByDate(stats) ==
    \A i \in 1..(Len(stats) - 1) : stats[i].date <= stats[i + 1].date

\* the DailyStats object built from a stats argument
NewStats(d, st) ==
    [date |-> d, residents |-> st.residents, towns |-> st.towns,
     nations |-> st.nations, onlinePlayers |-> st.onlinePlayers]

----------------------------------------------------------------------------
(* Stored JSON values.  shape "none": the key is absent; "doc": an object  *)
(* {lastUpdated, stats}; "array": a bare array of entries.                  *)

NoValue == [shape |-> "none", lastUpdated |-> 0, stats |-> <<>>]
\* history bookkeeping: t pushed on the times of the completed saves, the
\* latest first
Completed(times, t) == IF times = <<>> THEN <<t>> ELSE <<t, times[1]>>

Doc(t, stats) == [shape |-> "doc", lastUpdated |-> t, stats |-> stats]
Arr(stats) == [shape |-> "array", lastUpdated |-> 0, stats |-> stats]

----------------------------------------------------------------------------
(* src/lib/dataStorage.ts: history kept in browser storage only *)

\* getHistoricalData: the parsed value, or the empty structure
GetHistoricalData(hist, t) ==
    IF hist.shape = "none" THEN Doc(t, <<>>) ELSE hist

\* faulty variant: the entry is pushed without looking for its date
PutEntryPush(stats, e) == Append(stats, e)

\* the entry for s.date replaced in place, or pushed at the end
PutEntry(stats, e) ==
    IF FindIndex(stats, e.date) > 0
    THEN [stats EXCEPT ![FindIndex(stats, e.date)] = e]
    ELSE Append(stats, e)

\* .sort(by date).slice(-30)
KeepLast(stats) == LastN(SortByDate(stats), KeepDays)

\* saveToday: [ok, hist]; ok = FALSE is the null result of the catch block.
\* Reading .stats of a stored bare array gives undefined and findIndex throws;
\* writeOk = FALSE is localStorage.setItem throwing.
DsSaveToday(hist, t, st, writeOk) ==
    LET existingData == GetHistoricalData(hist, t)
        newStats == NewStats(DateOf(t), st)
    IN  IF existingData.shape # "doc" \/ ~writeOk
        THEN [ok |-> FALSE, hist |-> hist]
        ELSE [ok |-> TRUE,
              hist |-> Doc(t, KeepLast(PutEntry(existingData.stats, newStats)))]

\* faulty variant: the comparison with one hour ago is inverted
DsShouldSaveInverted(hist, t) ==
    LET data == GetHistoricalData(hist, t)
    IN  IF data.shape # "doc" THEN "throw"
        ELSE IF Find(data.stats, DateOf(t)) = <<>> THEN "true"
        ELSE IF data.lastUpdated > t - HourSec THEN "true" ELSE "false"

\* shouldSaveToday: "true" | "false" | "throw" (stats of a bare array)
DsShouldSaveToday(hist, t) ==
    LET data == GetHistoricalData(hist, t)
    IN  IF data.shape # "doc" THEN "throw"
        ELSE IF Find(data.stats, DateOf(t)) = <<>> THEN "true"
        ELSE IF data.lastUpdated < t - HourSec THEN "true" ELSE "false"

\* getLast7Days: element k is the entry of the day 7 - k days back, or <<>>
Last7Of(stats, t) ==
    [k \in 1..WeekDays |-> Find(stats, DateDaysAgo(t, WeekDays - k))]

----------------------------------------------------------------------------
(* src/unnamed/part_005: history read from the gist, saved locally *)

\* getLocalData: the parsed value (any shape), [] when the key is absent
GetLocalData(hist) ==
    IF hist.shape = "none" THEN Arr(<<>>) ELSE hist

\* saveToLocalStorage: [ok, ls]; writes = how many setItem calls succeed
\* before one throws (2: both).  findIndex of a stored object throws.
SaveToLocalStorage(store, e, t, writes) ==
    LET existing == GetLocalData(store.hist)
        sorted == KeepLast(PutEntry(existing.stats, e))
    IN  IF existing.shape # "array" \/ writes = 0
        THEN [ok |-> FALSE, ls |-> store]
        ELSE IF writes = 1
        THEN [ok |-> FALSE, ls |-> [store EXCEPT !.hist = Arr(sorted)]]
        ELSE [ok |-> TRUE, ls |-> [hist |-> Arr(sorted), lastSave |-> <<t>>]]

\* saveToday (async, no await inside): saves locally, returns newStats whatever
\* saveToLocalStorage returned
GlSaveToday(store, t, st, writes) ==
    SaveToLocalStorage(store, NewStats(DateOf(t), st), t, writes)

\* shouldSaveToday: parseInt(last_save_time) < now - one hour
GlShouldSaveToday(store, t) ==
    IF store.lastSave = <<>> THEN "true"
    ELSE IF store.lastSave[1] < t - HourSec THEN "true" ELSE "false"

\* getLast7DaysLocal: the seven days looked up in the local array; find of a
\* stored object throws (the caller has no handler: the promise rejects)
GetLast7DaysLocal(store, t) ==
    IF GetLocalData(store.hist).shape = "array"
    THEN Last7Of(GetLocalData(store.hist).stats, t)
    ELSE <<>>

\* getSharedData: the parsed gist, or the empty structure after a network
\* error, a non-OK response or a body that is not JSON.  payload "null" is a
\* 200 response whose JSON is null.
GetSharedData(payload, doc, t) ==
    IF payload = "ok" THEN doc
    ELSE IF payload = "null" THEN NoValue
    ELSE Doc(t, <<>>)

\* getLast7Days: the catch block runs only when reading sharedData.stats throws
GlGetLast7Days(payload, doc, store, t) ==
    LET sharedData == GetSharedData(payload, doc, t)
    IN  IF sharedData.shape = "none"
        THEN GetLast7DaysLocal(store, t)
        ELSE Last7Of(sharedData.stats, t)

----------------------------------------------------------------------------
(* src/unnamed/part_000: the scheduled snapshot workflow *)

\* faulty variant: the loop goes on after an attempt that returned data
FirstGoodNoBreak(outcomes) ==
    IF \E i \in 1..RetryCount : outcomes[i] = "data" THEN RetryCount ELSE 0

\* a retry loop "for i in {1..3}": the attempt that breaks out of it, 0 if none
FirstGood(outcomes) ==
    IF \E i \in 1..RetryCount : outcomes[i] = "data"
    THEN CHOOSE i \in 1..RetryCount :
            /\ outcomes[i] = "data"
            /\ \A j \in 1..(i - 1) : outcomes[j] # "data"
    ELSE 0

\* map(select(.date != $date))
RemoveDate(stats, d) == SelectSeq(stats, LAMBDA e : e.date # d)

\* the jq program of "Update Stats Data"
JqUpdate(current, out) ==
    Doc(out.timestamp,
        KeepLast(Append(RemoveDate(current.stats, out.date),
                        NewStats(out.date, out.st[1]))))

\* echo '{"lastUpdated":"","stats":[]}' > current.json
NewStructure == Doc(0, <<>>)

NoOut == [date |-> 0, timestamp |-> 0, st |-> <<>>]
IdlePipe == [pc |-> "idle", attempts |-> 0, out |-> NoOut,
             current |-> NoValue, updated |-> NoValue]

----------------------------------------------------------------------------
(* Initial states: a first visit, or a history of the last 30 days that  *)
(* ends with an entry stored for today an hour ago.                       *)

PastStats == [residents |-> 99, towns |-> 9, nations |-> 5, onlinePlayers |-> 3]

\* n consecutive days ending with the day of t
History(n, t) ==
    [k \in 1..n |-> NewStats(DateOf(t) - n + k, PastStats)]

StoredAs(h, stats, t) ==
    IF stats = <<>> THEN NoValue
    ELSE IF h = "ds" THEN Doc(t, stats) ELSE Arr(stats)

InitStore ==
    /\ now = DateTime(FirstDay) + HourSec
    /\ helper \in {"ds", "gl"}
    /\ \E n \in {0, KeepDays} :
         LET past == History(n, now)
         IN  /\ ls = [hist |-> StoredAs(helper, past, now - HourSec),
                      lastSave |-> IF helper = "gl" /\ n > 0
                                   THEN <<now - HourSec>> ELSE <<>>]
             /\ lsOkTimes = IF n > 0 THEN <<now - HourSec>> ELSE <<>>
             /\ gist = Doc(IF n = 0 THEN 0 ELSE now - HourSec, past)
    /\ pipe = IdlePipe

InitBrowser ==
    /\ serverData = <<>>
    /\ histLoad = "idle"
    /\ last7 = <<>>
    /\ historicalData = <<>>

\* no interval is registered
NoTimers == [interval |-> <<>>, timer |-> <<>>]

\* no fetchServerData call is in flight
NoFetches == [server |-> 0, towns |-> 0, details |-> 0]

\* the useState initial values of NationList
NationListState ==
    [allNations |-> <<>>, detailedNations |-> <<>>, filteredNations |-> <<>>,
     loading |-> TRUE, loadingDetails |-> FALSE, error |-> <<>>,
     searchTerm |-> <<>>, sortBy |-> "balance"]

\* the useState initial values of TownBrowser
TownBrowserState ==
    [allTowns |-> <<>>, detailedTowns |-> <<>>, filteredTowns |-> <<>>,
     loading |-> TRUE, loadingDetails |-> FALSE, error |-> <<>>,
     searchTerm |-> <<>>, sortBy |-> "balance",
     selectedNation |-> <<"a", "l", "l">>,
     viewMode |-> "basic"]

\* the useState initial values of ServerStatus (serverData and
\* historicalData are in InitBrowser)
ServerStatusState ==
    /\ loading = TRUE
    /\ error = <<>>
    /\ topTowns = <<>>
    /\ staffList = "empty"

\* ServerStatus is not rendered
StatusIdle ==
    /\ mounted = FALSE
    /\ timers = NoTimers
    /\ currentTime = 0
    /\ chain = "done"
    /\ fetches = NoFetches
    /\ polls = 0
    /\ ServerStatusState
    /\ updatedAfterUnmount = FALSE

\* NationList is not rendered
NationIdle ==
    /\ nationList = NationListState
    /\ nationRequests = EmptyBag

\* TownBrowser is not rendered
TownIdle ==
    /\ townBrowser = TownBrowserState
    /\ townRequests = EmptyBag

\* the useState initial values of PlayerLookup; version is the file that is
\* built: "tsx" (PlayerLookup.tsx), "p1" (part_001) or "p2" (part_002, which
\* has no hasSearched)
PlayerLookupState(v) ==
    [version |-> v, searchTerm |-> <<>>, playerData |-> <<>>,
     loading |-> FALSE, error |-> <<>>, hasSearched |-> FALSE]

\* PlayerLookup is not rendered
PlayerIdle ==
    /\ playerLookup = PlayerLookupState("tsx")
    /\ playerRequests = EmptyBag

\* the useState initial values of the online-player list of ServerStatus
OnlineListState ==
    [onlinePlayers |-> {}, playerLoadingStatus |-> "idle", isLoadingMore |-> FALSE]

\* the online-player list has not been asked for
OnlineIdle ==
    /\ onlineList = OnlineListState
    /\ onlineRequests = EmptyBag

\* the variables of the screens a specification does not follow
ScreensIdle ==
    StatusIdle /\ NationIdle /\ TownIdle /\ PlayerIdle /\ OnlineIdle

Init == InitStore /\ InitBrowser /\ ScreensIdle

----------------------------------------------------------------------------
(* The clock *)

\* a day passes
AdvanceDay ==
    /\ DateOf(now) < FirstDay + MaxDays
    /\ now' = now + DaySec
    /\ UNCHANGED <<helper, ls, lsOkTimes, gist, pipe, browserVars, screenVars>>

----------------------------------------------------------------------------
(* Unguarded saves *)

\* dataStorage.ts saveToday(stats)
DsSave(st, writeOk) ==
    /\ helper = "ds"
    /\ LET r == DsSaveToday(ls.hist, now, st, writeOk)
       IN  ls' = [ls EXCEPT !.hist = r.hist]
    /\ UNCHANGED <<now, helper, lsOkTimes, gist, pipe, browserVars, screenVars>>

\* part_005 saveToday(stats)
GlSave(st, writes) ==
    /\ helper = "gl"
    /\ LET r == GlSaveToday(ls, now, st, writes)
       IN  ls' = r.ls
    /\ UNCHANGED <<now, helper, lsOkTimes, gist, pipe, browserVars, screenVars>>

----------------------------------------------------------------------------
(* The workflow's steps *)

\* "Fetch EarthMC Server Data": exit 1 when no attempt returned data
FetchStep(outcomes, st) ==
    /\ pipe.pc = "idle"
    /\ LET got == FirstGood(outcomes)
       IN  IF got = 0
           THEN pipe' = [IdlePipe EXCEPT !.attempts = RetryCount]
           ELSE pipe' = [IdlePipe EXCEPT
                               !.pc = "fetched", !.attempts = got,
                               !.out = [date |-> DateOf(now), timestamp |-> now,
                                        st |-> <<st>>]]
    /\ UNCHANGED <<now, helper, ls, lsOkTimes, gist, browserVars, screenVars>>

\* "Download Current Gist Data": the new structure when current.json stays empty
DownloadStep(outcomes) ==
    /\ pipe.pc = "fetched"
    /\ LET got == FirstGood(outcomes)
       IN  pipe' = [pipe EXCEPT
                         !.pc = "downloaded",
                         !.attempts = IF got = 0 THEN RetryCount ELSE got,
                         !.current = IF got = 0 THEN NewStructure ELSE gist]
    /\ UNCHANGED <<now, helper, ls, lsOkTimes, gist, browserVars, screenVars>>

\* "Update Stats Data"
UpdateStep ==
    /\ pipe.pc = "downloaded"
    /\ pipe' = [pipe EXCEPT !.pc = "updated",
                            !.updated = JqUpdate(pipe.current, pipe.out)]
    /\ UNCHANGED <<now, helper, ls, lsOkTimes, gist, browserVars, screenVars>>

\* "Update GitHub Gist" and "Cleanup"; patchOk = FALSE is curl failing (exit 1)
PatchStep(patchOk) ==
    /\ pipe.pc = "updated"
    /\ gist' = IF patchOk THEN pipe.updated ELSE gist
    /\ pipe' = IdlePipe
    /\ UNCHANGED <<now, helper, ls, lsOkTimes, browserVars, screenVars>>

Outcomes == [1..RetryCount -> {"data", "empty"}]

Next ==
    \/ AdvanceDay
    \/ \E st \in StatsInputs, w \in BOOLEAN : DsSave(st, w)
    \/ \E st \in StatsInputs, w \in 0..2 : GlSave(st, w)
    \/ \E o \in Outcomes, st \in StatsInputs : FetchStep(o, st)
    \/ \E o \in Outcomes : DownloadStep(o)
    \/ UpdateStep
    \/ \E ok \in BOOLEAN : PatchStep(ok)

Spec == Init /\ [][Next]_vars

----------------------------------------------------------------------------
(* ServerStatus.tsx (lines 340-1498): saving and loading the history *)

\* x || null, with <<>> for null
OrNull(x) == IF x = 0 THEN <<>> ELSE <<x>>

\* the chart rows loadHistoricalData builds from getLast7Days' result
ChartData(days, t) ==
    [k \in 1..WeekDays |->
        [date |-> DateDaysAgo(t, WeekDays - k),
         residents |-> IF days[k] = <<>> THEN <<>> ELSE OrNull(days[k][1].residents),
         towns |-> IF days[k] = <<>> THEN <<>> ELSE OrNull(days[k][1].towns),
         nations |-> IF days[k] = <<>> THEN <<>> ELSE OrNull(days[k][1].nations),
         onlinePlayers |-> IF days[k] = <<>> THEN <<>>
                           ELSE OrNull(days[k][1].onlinePlayers)]]

HalfHours == (0..MaxSlot) \cup {DaySec \div HalfHourSec - 1}

Times ==
    { DateTime(FirstDay + d) + h * HalfHourSec : d \in 0..MaxDays, h \in HalfHours }

\* a visit that starts at midnight: nothing stored, or a week of history whose
\* last entry, today's, was stored this very second
InitVisitStore ==
    /\ now = DateTime(FirstDay)
    /\ helper \in {"ds", "gl"}
    /\ \E n \in {0, WeekDays} :
         LET past == History(n, now)
         IN  /\ ls = [hist |-> StoredAs(helper, past, now),
                      lastSave |-> IF helper = "gl" /\ n > 0 THEN <<now>> ELSE <<>>]
             /\ lsOkTimes = IF n > 0 THEN <<now>> ELSE <<>>
             /\ gist = Doc(IF n = 0 THEN 0 ELSE now, past)
    /\ pipe = IdlePipe

InitVisit == InitVisitStore /\ InitBrowser /\ ScreensIdle

\* time passes
AdvanceClock ==
    /\ \E t \in Times : t > now /\ now' = t
    /\ UNCHANGED <<helper, ls, lsOkTimes, gist, pipe, browserVars, screenVars>>

\* shouldSaveToday() of the bundled helper
ShouldSaveToday ==
    IF helper = "ds" THEN DsShouldSaveToday(ls.hist, now)
    ELSE GlShouldSaveToday(ls, now)

\* loadHistoricalData with dataStorage.ts: getLast7Days is synchronous; it
\* throws on a stored bare array and the catch block only logs
DsLoaded ==
    IF GetHistoricalData(ls'.hist, now).shape = "doc"
    THEN /\ last7' = Last7Of(GetHistoricalData(ls'.hist, now).stats, now)
         /\ historicalData' = ChartData(last7', now)
         /\ UNCHANGED histLoad
    ELSE UNCHANGED <<histLoad, last7, historicalData>>

\* setServerData(serverInfo) and the effect it triggers, saveCurrentStats:
\* return unless shouldSaveToday(); saved = saveToday(...); if (saved)
\* loadHistoricalData().  With part_005 saved is a promise, always truthy.
SetServerData(st, writes) ==
    /\ serverData' = <<st>>
    /\ IF ShouldSaveToday # "true"
       THEN UNCHANGED <<ls, lsOkTimes, histLoad, last7, historicalData>>
       ELSE IF helper = "ds"
       THEN LET r == DsSaveToday(ls.hist, now, st, writes > 0)
            IN  /\ ls' = [ls EXCEPT !.hist = r.hist]
                /\ lsOkTimes' = IF r.ok THEN Completed(lsOkTimes, now) ELSE lsOkTimes
                /\ IF r.ok THEN DsLoaded
                   ELSE UNCHANGED <<histLoad, last7, historicalData>>
       ELSE LET r == GlSaveToday(ls, now, st, writes)
            IN  /\ ls' = r.ls
                /\ lsOkTimes' = IF r.ok THEN Completed(lsOkTimes, now) ELSE lsOkTimes
                /\ histLoad' = "pending"
                /\ UNCHANGED <<last7, historicalData>>

\* new server data reaches the mounted component
ServerDataChanged(st, writes) ==
    /\ SetServerData(st, writes)
    /\ UNCHANGED <<now, helper, gist, pipe, screenVars>>

\* initializeData's call of loadHistoricalData
LoadHistoricalData ==
    /\ IF helper = "ds"
       THEN /\ UNCHANGED ls
            /\ DsLoaded
       ELSE /\ histLoad' = "pending"
            /\ UNCHANGED <<ls, last7, historicalData>>
    /\ UNCHANGED <<now, helper, lsOkTimes, gist, pipe, serverData, screenVars>>

\* the gist request of part_005's getLast7Days settles
LoadHistoricalDataDone(payload) ==
    /\ histLoad = "pending"
    /\ histLoad' = "idle"
    /\ LET days == GlGetLast7Days(payload, gist, ls, now)
       IN  IF days = <<>>
           THEN UNCHANGED <<last7, historicalData>>
           ELSE /\ last7' = days
                /\ historicalData' = ChartData(days, now)
    /\ UNCHANGED <<now, helper, ls, lsOkTimes, gist, pipe, serverData, screenVars>>

Payloads == {"ok", "network", "http", "null"}

NextBrowser ==
    \/ AdvanceClock
    \/ \E st \in StatsInputs, w \in 0..2 : ServerDataChanged(st, w)
    \/ LoadHistoricalData
    \/ \E p \in Payloads : LoadHistoricalDataDone(p)

SpecBrowser == InitVisit /\ [][NextBrowser]_vars

----------------------------------------------------------------------------
(* Arrays of the screens *)

\* faulty variant: the slice has no end
FirstNAll(seq, n) == seq

\* array.slice(0, n)
FirstN(seq, n) == SubSeq(seq, 1, IF n < Len(seq) THEN n ELSE Len(seq))

\* the elements of an array
Elements(seq) == { seq[i] : i \in 1..Len(seq) }

\* array.sort(compare), which is stable: less[a, b] is compare(a, b) < 0
StableSort(seq, less) ==
    LET n == Len(seq)
        pos == [i \in 1..n |->
                   1 + Cardinality({ j \in 1..n :
                           \/ less[seq[j], seq[i]]
                           \/ ~less[seq[i], seq[j]] /\ j < i })]
    IN  [k \in 1..n |-> seq[CHOOSE i \in 1..n : pos[i] = k]]

\* strings are sequences of one-letter strings over this alphabet
Letters == {"a", "b", "l", "A", "B"}

Lower(c) == IF c = "A" THEN "a" ELSE IF c = "B" THEN "b" ELSE c

\* str.toLowerCase()
ToLowerCase(str) == [i \in 1..Len(str) |-> Lower(str[i])]

\* str.includes(sub)
Includes(str, sub) ==
    \E i \in 0..(Len(str) - Len(sub)) : SubSeq(str, i + 1, i + Len(sub)) = sub

\* lexicographic order of two strings by the rank R of their letters
LexLess(x, y, R) ==
    \E k \in 1..(Len(x) + 1) :
        /\ k <= Len(y) + 1
        /\ \A i \in 1..(k - 1) : R[x[i]] = R[y[i]]
        /\ \/ k = Len(x) + 1 /\ k <= Len(y)
           \/ k <= Len(x) /\ k <= Len(y) /\ R[x[k]] < R[y[k]]

\* a.localeCompare(b) < 0: by letter first, lower case before upper case
\* where the letters are the same
LetterRank == [c \in Letters |-> IF Lower(c) = "a" THEN 1
                                 ELSE IF Lower(c) = "b" THEN 2 ELSE 3]
CaseRank == [c \in Letters |-> IF Lower(c) = c THEN 1 ELSE 2]
LocaleLess(a, b) ==
    \/ LexLess(a, b, LetterRank)
    \/ /\ ToLowerCase(a) = ToLowerCase(b)
       /\ LexLess(a, b, CaseRank)

\* err instanceof Error ? err.message : 'Unknown error': the message thrown
\* on a non-OK response, or fetch's own TypeError
ErrorMessage(outcome, thrown) ==
    IF outcome = "http" THEN thrown ELSE "Failed to fetch"

Failures == {"http", "network"}

----------------------------------------------------------------------------
(* ServerStatus.tsx (lines 340-1498): mount, timers and requests.  The build
   bundles dataStorage.ts.  The online-player list (fetchOnlinePlayers,
   loadMoreOnlinePlayers) writes only state of its own and is left out. *)

ClockPeriod == 1          \* setInterval(..., 1000), in seconds
PollPeriod == 5 * 60      \* setInterval(..., 5 * 60 * 1000), in seconds
DetailCount == 20         \* townsData.slice(0, 20)
TopCount == 10            \* .slice(0, 10)

MaxPolls == 1             \* polls followed after the mount
MaxTicks == 2             \* seconds followed one by one after the mount and each poll

MountTime == DateTime(FirstDay)

\* the instants at which the component is looked at
Instants ==
    { MountTime + k * PollPeriod + j * ClockPeriod :
        k \in 0..MaxPolls, j \in 0..MaxTicks }

\* how many towns the towns endpoint lists beyond those the detail loop fetches
ExtraTowns == 1

\* how many towns of the list have a detail request that can go wrong
VariedTowns == 1

\* the towns the towns endpoint lists, with the balance of their details
ServerTowns ==
    [i \in 1..(DetailCount + ExtraTowns) |->
        [name |-> i,
         balance |-> IF i <= DetailCount THEN DetailCount + 1 - i
                                         ELSE DetailCount + i]]

\* per town of the detail loop: details with the balance, details without a
\* balance, or a failed request
DetailOutcomes ==
    { [i \in 1..Len(ServerTowns) |-> IF i <= VariedTowns THEN p[i] ELSE "ok"] :
        p \in [1..VariedTowns -> {"ok", "zero", "fail"}] }

\* the detail loop over the first 20 towns, then sort by balance and top 10
TopTownsOf(o) ==
    LET townsToFetch == FirstN(ServerTowns, DetailCount)
        Pushed(i) == IF o[i] = "ok" /\ townsToFetch[i].balance > 0
                     THEN <<townsToFetch[i]>> ELSE <<>>
        Loop[i \in 0..Len(townsToFetch)] ==
            IF i = 0 THEN <<>> ELSE Loop[i - 1] \o Pushed(i)
        detailedTowns == Loop[Len(townsToFetch)]
    IN  FirstN(StableSort(detailedTowns,
                          [a \in Elements(detailedTowns),
                           b \in Elements(detailedTowns) |->
                              b.balance - a.balance < 0]),
               TopCount)

\* the list the detail loop ends with, for each way its requests can go
TopTownsTable == [o \in DetailOutcomes |-> TopTownsOf(o)]

\* faulty variant: the cleanups leave the intervals registered
ClearIntervalsLeak(t) == t

\* the cleanups of the two interval effects: clearInterval of each
ClearIntervals(t) == NoTimers

\* faulty variant: the flag is tested again after each await
GoesOnOnlyMounted(m) == m

\* initializeData tests `mounted` on entry only: after an await it goes on
\* whatever the flag has become
GoesOn(m) == TRUE

\* faulty variant: setLoading(false) is the last statement of the try block
FinallyAfterSuccess(outcome) == outcome \in Failures

\* finally { setLoading(false) }: the flag once the call has ended, however
\* it ended
Finally(outcome) == FALSE

\* the mount: useState values, initializeData awaiting loadStaffList, both
\* intervals registered
InitStatus ==
    /\ InitVisitStore
    /\ helper = "ds"
    /\ InitBrowser
    /\ mounted = TRUE
    /\ timers = [interval |-> <<now + PollPeriod>>, timer |-> <<now + ClockPeriod>>]
    /\ currentTime = now
    /\ chain = "staff"
    /\ fetches = NoFetches
    /\ polls = 0
    /\ ServerStatusState
    /\ updatedAfterUnmount = FALSE
    /\ NationIdle
    /\ TownIdle
    /\ PlayerIdle
    /\ OnlineIdle

\* how often an interval registered with setInterval, next due at due[1],
\* has fired by time t
Fired(due, period, t) ==
    IF due = <<>> \/ due[1] > t THEN 0 ELSE (t - due[1]) \div period + 1

\* time reaches the next instant and the interval callbacks due by then run:
\* setCurrentTime(new Date()); fetchServerData() up to its first await
Elapse ==
    /\ \E t \in Instants : t > now
    /\ now' = CHOOSE t \in Instants :
                  t > now /\ \A u \in Instants : u > now => t <= u
    /\ LET ticks == Fired(timers.timer, ClockPeriod, now')
           due == Fired(timers.interval, PollPeriod, now')
       IN  /\ timers' =
                 [interval |-> IF due = 0 THEN timers.interval
                               ELSE <<timers.interval[1] + due * PollPeriod>>,
                  timer |-> IF ticks = 0 THEN timers.timer
                            ELSE <<timers.timer[1] + ticks * ClockPeriod>>]
           /\ currentTime' = IF ticks = 0 THEN currentTime
                             ELSE timers.timer[1] + (ticks - 1) * ClockPeriod
           /\ loading' = IF due = 0 THEN loading ELSE TRUE
           /\ error' = IF due = 0 THEN error ELSE <<>>
           /\ fetches' = [fetches EXCEPT !.server = @ + due]
           /\ polls' = polls + due
           /\ updatedAfterUnmount' =
                  (updatedAfterUnmount \/ (~mounted /\ ticks + due > 0))
    /\ UNCHANGED <<helper, ls, lsOkTimes, gist, pipe, browserVars, mounted,
                   chain, topTowns, staffList, nationVars, townVars,
                   playerVars, onlineVars>>

\* loadStaffList settles (the abort after 3 s is one of the failures) and
\* initializeData goes on: loadHistoricalData, then fetchServerData up to its
\* first await
StaffSettles(outcome) ==
    /\ chain = "staff"
    /\ chain' = "done"
    /\ staffList' = IF outcome = "ok" THEN "knownStaff" ELSE "fallbackStaff"
    /\ UNCHANGED ls
    /\ IF GoesOn(mounted)
       THEN /\ DsLoaded
            /\ loading' = TRUE
            /\ error' = <<>>
            /\ fetches' = [fetches EXCEPT !.server = @ + 1]
       ELSE UNCHANGED <<histLoad, last7, historicalData, loading, error, fetches>>
    /\ updatedAfterUnmount' = (updatedAfterUnmount \/ ~mounted)
    /\ UNCHANGED <<now, helper, lsOkTimes, gist, pipe, serverData, mounted,
                   timers, currentTime, polls, topTowns, nationVars, townVars,
                   playerVars, onlineVars>>

\* the request for the server data settles.  After the unmount nothing is
\* rendered, so the setter is called but no effect follows it.
ServerSettles(outcome, st, writes) ==
    /\ fetches.server > 0
    /\ IF outcome = "ok"
       THEN /\ fetches' = [fetches EXCEPT !.server = @ - 1, !.towns = @ + 1]
            /\ IF mounted THEN SetServerData(st, writes)
               ELSE /\ serverData' = <<st>>
                    /\ UNCHANGED <<ls, lsOkTimes, histLoad, last7, historicalData>>
            /\ UNCHANGED <<loading, error>>
       ELSE /\ fetches' = [fetches EXCEPT !.server = @ - 1]
            /\ error' = <<ErrorMessage(outcome, "Failed to fetch server data")>>
            /\ loading' = Finally(outcome)
            /\ UNCHANGED <<ls, lsOkTimes, browserVars>>
    /\ updatedAfterUnmount' = (updatedAfterUnmount \/ ~mounted)
    /\ UNCHANGED <<now, helper, gist, pipe, mounted, timers, currentTime, chain,
                   polls, topTowns, staffList, nationVars, townVars,
                   playerVars, onlineVars>>

\* the request for the town list settles: a non-empty array starts the detail
\* loop; a failure is caught by the inner try and empties topTowns
TownsSettles(outcome) ==
    /\ fetches.towns > 0
    /\ IF outcome = "list"
       THEN /\ fetches' = [fetches EXCEPT !.towns = @ - 1, !.details = @ + 1]
            /\ UNCHANGED <<loading, topTowns, updatedAfterUnmount>>
       ELSE /\ fetches' = [fetches EXCEPT !.towns = @ - 1]
            /\ topTowns' = IF outcome \in Failures THEN <<>> ELSE topTowns
            /\ loading' = Finally(outcome)
            /\ updatedAfterUnmount' = (updatedAfterUnmount \/ ~mounted)
    /\ UNCHANGED <<storeVars, browserVars, mounted, timers, currentTime, chain,
                   polls, error, staffList, nationVars, townVars,
                   playerVars, onlineVars>>

\* the detail loop ends: setTopTowns(sortedTowns), then finally
DetailsSettle(o) ==
    /\ fetches.details > 0
    /\ fetches' = [fetches EXCEPT !.details = @ - 1]
    /\ topTowns' = TopTownsTable[o]
    /\ loading' = Finally("ok")
    /\ updatedAfterUnmount' = (updatedAfterUnmount \/ ~mounted)
    /\ UNCHANGED <<storeVars, browserVars, mounted, timers, currentTime, chain,
                   polls, error, staffList, nationVars, townVars,
                   playerVars, onlineVars>>

\* the component unmounts: mounted = false, clearInterval(interval),
\* clearInterval(timer)
Unmount ==
    /\ mounted
    /\ mounted' = FALSE
    /\ timers' = ClearIntervals(timers)
    /\ UNCHANGED <<storeVars, browserVars, currentTime, chain, fetches, polls,
                   loading, error, topTowns, staffList, updatedAfterUnmount,
                   nationVars, townVars,
                   playerVars, onlineVars>>

NextStatus ==
    \/ Elapse
    \/ \E o \in {"ok"} \cup Failures : StaffSettles(o)
    \/ \E o \in {"ok"} \cup Failures, st \in StatsInputs, w \in 0..1 :
          ServerSettles(o, st, w)
    \/ \E o \in {"list", "empty"} \cup Failures : TownsSettles(o)
    \/ \E o \in DetailOutcomes : DetailsSettle(o)
    \/ Unmount

SpecStatus == InitStatus /\ [][NextStatus]_vars

----------------------------------------------------------------------------
(* NationList.tsx *)

TopUuidCount == 50        \* filtered.slice(0, 50)

MaxRequests == 2          \* fetchDetailedNations calls in flight at once

\* how many nations, and towns, the server knows beyond the 50 of a query
ExtraListed == 1

\* the nations told apart by the search and the sort orders
NamedNations ==
    << [name |-> <<"A", "b">>, uuid |-> "n1",
        stats |-> <<[balance |-> 5, numResidents |-> 9, numTowns |-> 2]>>],
       [name |-> <<"b", "a">>, uuid |-> "n2",
        stats |-> <<[balance |-> 9, numResidents |-> 4, numTowns |-> 2]>>],
       [name |-> <<"a", "a">>, uuid |-> "n3", stats |-> <<>>] >>

\* the nations the server knows: the list endpoint returns them in this order
\* and the POST returns the queried ones in the order of the query
NationData ==
    NamedNations \o
    [i \in 1..(TopUuidCount + ExtraListed - Len(NamedNations)) |->
        [name |-> <<"l">>, uuid |-> "n" \o ToString(Len(NamedNations) + i),
         stats |-> <<[balance |-> 1, numResidents |-> 1, numTowns |-> 1]>>]]

SearchTerms == { <<>>, <<"B">> }
SortKeys == {"balance", "residents", "towns", "name"}

\* n.stats?.balance || 0 and its like
Balance(n) == IF n.stats = <<>> THEN 0 ELSE n.stats[1].balance
NumResidents(n) == IF n.stats = <<>> THEN 0 ELSE n.stats[1].numResidents
NumTowns(n) == IF n.stats = <<>> THEN 0 ELSE n.stats[1].numTowns

\* the comparator of fetchDetailedNations is negative
NationLess(sortBy, a, b) ==
    IF sortBy = "balance" THEN Balance(b) - Balance(a) < 0
    ELSE IF sortBy = "residents" THEN NumResidents(b) - NumResidents(a) < 0
    ELSE IF sortBy = "towns" THEN NumTowns(b) - NumTowns(a) < 0
    ELSE LocaleLess(a.name, b.name)

\* filter by search term, sort, top 50 UUIDs
TopUuids(nationsData, sortBy, searchTerm) ==
    LET Matches(n) == Includes(ToLowerCase(n.name), ToLowerCase(searchTerm))
        filtered == IF searchTerm # <<>> THEN SelectSeq(nationsData, Matches)
                    ELSE nationsData
        sorted == StableSort(filtered,
                             [a \in Elements(filtered), b \in Elements(filtered) |->
                                 NationLess(sortBy, a, b)])
        top == FirstN(sorted, TopUuidCount)
    IN  [i \in 1..Len(top) |-> top[i].uuid]

\* the nation of each UUID
NationByUuid ==
    [u \in { NationData[k].uuid : k \in 1..Len(NationData) } |->
        NationData[CHOOSE k \in 1..Len(NationData) : NationData[k].uuid = u]]

\* the POST's answer to a query
NationDetails(uuids) == [i \in 1..Len(uuids) |-> NationByUuid[uuids[i]]]

\* the UUIDs a call queries, for each sort order and search term
TopUuidsTable ==
    [k \in SortKeys, t \in SearchTerms |-> TopUuids(NationData, k, t)]

BasicNationsCall ==
    [fn |-> "fetchBasicNations", sortBy |-> "", searchTerm |-> <<>>,
     awaiting |-> "list", topUuids |-> <<>>]

\* fetchDetailedNations(sortBy, searchTerm) at its first await
DetailedNationsCall(sortBy, searchTerm) ==
    [fn |-> "fetchDetailedNations", sortBy |-> sortBy, searchTerm |-> searchTerm,
     awaiting |-> "list", topUuids |-> <<>>]

DetailedCalls(reqs) ==
    { r \in BagToSet(reqs) : r.fn = "fetchDetailedNations" }

DetailedCount(reqs) ==
    BagCardinality(reqs) - CopiesIn(BasicNationsCall, reqs)

\* faulty variant: starting a call aborts the calls in flight
IssueAlone(reqs, r) == SetToBag({r})

\* a call is started next to the calls in flight: nothing aborts them
Issue(reqs, r) == reqs (+) SetToBag({r})

\* a call has ended
Settled(reqs, r) == reqs (-) SetToBag({r})

\* the mount: both effects have run up to their first await
InitNation ==
    /\ InitVisitStore
    /\ helper = "ds"
    /\ lsOkTimes = <<>>
    /\ InitBrowser
    /\ StatusIdle
    /\ TownIdle
    /\ PlayerIdle
    /\ OnlineIdle
    /\ nationList = [NationListState EXCEPT !.loadingDetails = TRUE]
    /\ nationRequests = Issue(SetToBag({BasicNationsCall}),
                              DetailedNationsCall("balance", <<>>))

\* fetchBasicNations settles
BasicNationsSettle(outcome) ==
    /\ BagIn(BasicNationsCall, nationRequests)
    /\ nationRequests' = Settled(nationRequests, BasicNationsCall)
    /\ nationList' =
         IF outcome = "ok"
         THEN [nationList EXCEPT !.allNations = NationData, !.loading = FALSE]
         ELSE [nationList EXCEPT
                 !.error = <<ErrorMessage(outcome, "Failed to fetch nations data")>>,
                 !.loading = FALSE]
    /\ UNCHANGED <<storeVars, browserVars, statusVars, townVars, playerVars, onlineVars>>

\* the catch and finally blocks of fetchDetailedNations
DetailedNationsFailed(nl, message) ==
    [nl EXCEPT !.error = <<message>>, !.detailedNations = <<>>,
               !.filteredNations = <<>>, !.loadingDetails = FALSE]

\* the GET of a fetchDetailedNations call settles
DetailedListSettles(r, outcome) ==
    /\ r \in DetailedCalls(nationRequests)
    /\ r.awaiting = "list"
    /\ IF outcome = "ok"
       THEN /\ nationRequests' =
                 Settled(nationRequests, r) (+)
                 SetToBag({[r EXCEPT !.awaiting = "details",
                                     !.topUuids = TopUuidsTable[r.sortBy,
                                                                r.searchTerm]]})
            /\ UNCHANGED nationList
       ELSE /\ nationRequests' = Settled(nationRequests, r)
            /\ nationList' = DetailedNationsFailed(nationList,
                    ErrorMessage(outcome, "Failed to fetch nations data"))
    /\ UNCHANGED <<storeVars, browserVars, statusVars, townVars, playerVars, onlineVars>>

\* the POST of a fetchDetailedNations call settles
DetailedNationsSettle(r, outcome) ==
    /\ r \in DetailedCalls(nationRequests)
    /\ r.awaiting = "details"
    /\ nationRequests' = Settled(nationRequests, r)
    /\ nationList' =
         IF outcome = "ok"
         THEN [nationList EXCEPT !.detailedNations = NationDetails(r.topUuids),
                                 !.filteredNations = NationDetails(r.topUuids),
                                 !.loadingDetails = FALSE]
         ELSE DetailedNationsFailed(nationList,
                    ErrorMessage(outcome, "Failed to fetch detailed nation data"))
    /\ UNCHANGED <<storeVars, browserVars, statusVars, townVars, playerVars, onlineVars>>

\* the effect on [sortBy, searchTerm]: fetchDetailedNations up to its first
\* await
NationsEffect(nl) == [nl EXCEPT !.loadingDetails = TRUE, !.error = <<>>]

\* faulty variant: the search box and the sort menu stay next to the banner
NationControlsAlways(nl) == TRUE

\* `if (error) return` the banner: it replaces the search box and the sort
\* menu
NationControls(nl) == nl.error = <<>>

\* the user types in the search box
NationSetSearchTerm(term) ==
    /\ NationControls(nationList)
    /\ term # nationList.searchTerm
    /\ DetailedCount(nationRequests) < MaxRequests
    /\ nationList' = NationsEffect([nationList EXCEPT !.searchTerm = term])
    /\ nationRequests' = Issue(nationRequests,
                               DetailedNationsCall(nationList.sortBy, term))
    /\ UNCHANGED <<storeVars, browserVars, statusVars, townVars, playerVars, onlineVars>>

\* the user picks a sort order
NationSetSortBy(key) ==
    /\ NationControls(nationList)
    /\ key # nationList.sortBy
    /\ DetailedCount(nationRequests) < MaxRequests
    /\ nationList' = NationsEffect([nationList EXCEPT !.sortBy = key])
    /\ nationRequests' = Issue(nationRequests,
                               DetailedNationsCall(key, nationList.searchTerm))
    /\ UNCHANGED <<storeVars, browserVars, statusVars, townVars, playerVars, onlineVars>>

NextNation ==
    \/ \E o \in {"ok"} \cup Failures : BasicNationsSettle(o)
    \/ \E r \in DetailedCalls(nationRequests), o \in {"ok"} \cup Failures : DetailedListSettles(r, o)
    \/ \E r \in DetailedCalls(nationRequests), o \in {"ok"} \cup Failures : DetailedNationsSettle(r, o)
    \/ \E t \in SearchTerms : NationSetSearchTerm(t)
    \/ \E k \in SortKeys : NationSetSortBy(k)

SpecNation == InitNation /\ [][NextNation]_vars

----------------------------------------------------------------------------
(* TownBrowser.tsx *)

TownQueryCount == 50      \* allTowns.slice(0, 50) and townUuids.slice(0, 50)

\* the towns told apart by the filters
NamedTowns ==
    << [name |-> <<"A", "b">>, uuid |-> "t1", mayor |-> <<"a">>,
        nation |-> <<[name |-> <<"B">>]>>,
        stats |-> [balance |-> 5, numResidents |-> 3]],
       [name |-> <<"b">>, uuid |-> "t2", mayor |-> <<"b">>,
        nation |-> <<>>,
        stats |-> [balance |-> 9, numResidents |-> 1]],
       [name |-> <<"a">>, uuid |-> "t3", mayor |-> <<"a">>,
        nation |-> <<[name |-> <<"a", "a">>]>>,
        stats |-> [balance |-> 9, numResidents |-> 2]] >>

\* the towns the server knows, as the POST details them; the list endpoint
\* returns their names and UUIDs in this order
TownData ==
    NamedTowns \o
    [i \in 1..(TownQueryCount + ExtraListed - Len(NamedTowns)) |->
        [name |-> <<"l">>, uuid |-> "t" \o ToString(Len(NamedTowns) + i),
         mayor |-> <<"l">>, nation |-> <<>>,
         stats |-> [balance |-> 1, numResidents |-> 1]]]

BasicTowns == [i \in 1..Len(TownData) |->
                  [name |-> TownData[i].name, uuid |-> TownData[i].uuid]]

\* the value 'all' of the nation filter
AllNations == <<"a", "l", "l">>

TownSearchTerms == { <<>>, <<"A">> }
TownSortKeys == {"name", "balance", "residents"}

\* town.nation?.name || ''
NationName(town) == IF town.nation = <<>> THEN <<>> ELSE town.nation[1].name

\* the nation names the filter offers next to 'all'
UniqueNations(detailedTowns) ==
    { detailedTowns[i].nation[1].name :
        i \in { k \in 1..Len(detailedTowns) : detailedTowns[k].nation # <<>> } }

\* the comparator of the filter effect is negative
TownLess(sortBy, a, b) ==
    IF sortBy = "name" THEN LocaleLess(a.name, b.name)
    ELSE IF sortBy = "balance" THEN b.stats.balance - a.stats.balance < 0
    ELSE b.stats.numResidents - a.stats.numResidents < 0

\* what the filter effect computes
FilterTowns(tb) ==
    LET term == ToLowerCase(tb.searchTerm)
        Matches(town) ==
            \/ Includes(ToLowerCase(town.name), term)
            \/ Includes(ToLowerCase(town.mayor), term)
            \/ Includes(ToLowerCase(NationName(town)), term)
        OfNation(town) ==
            town.nation # <<>> /\ town.nation[1].name = tb.selectedNation
        found == SelectSeq(tb.detailedTowns, Matches)
        filtered == IF tb.selectedNation # AllNations
                    THEN SelectSeq(found, OfNation) ELSE found
    IN  StableSort(filtered,
                   [a \in Elements(filtered), b \in Elements(filtered) |->
                       TownLess(tb.sortBy, a, b)])

\* the effect on [detailedTowns, searchTerm, sortBy, selectedNation,
\* viewMode], run after a render in which one of them changed
FilterEffect(old, tb) ==
    IF /\ <<old.detailedTowns, old.searchTerm, old.sortBy, old.selectedNation,
            old.viewMode>>
          # <<tb.detailedTowns, tb.searchTerm, tb.sortBy, tb.selectedNation,
              tb.viewMode>>
       /\ tb.viewMode = "detailed"
       /\ tb.detailedTowns # <<>>
    THEN [tb EXCEPT !.filteredTowns = FilterTowns(tb)]
    ELSE tb

\* the town of each UUID
TownByUuid ==
    [u \in { TownData[k].uuid : k \in 1..Len(TownData) } |->
        TownData[CHOOSE k \in 1..Len(TownData) : TownData[k].uuid = u]]

\* the POST's answer to a query
TownDetails(uuids) == [i \in 1..Len(uuids) |-> TownByUuid[uuids[i]]]

BasicTownsCall == [fn |-> "fetchBasicTowns", query |-> <<>>]

\* fetchDetailedTowns(townUuids) at its await
DetailedTownsCall(townUuids) ==
    [fn |-> "fetchDetailedTowns", query |-> FirstN(townUuids, TownQueryCount)]

\* the mount: fetchBasicTowns has run up to its await
InitTown ==
    /\ InitVisitStore
    /\ helper = "ds"
    /\ lsOkTimes = <<>>
    /\ InitBrowser
    /\ StatusIdle
    /\ NationIdle
    /\ PlayerIdle
    /\ OnlineIdle
    /\ townBrowser = TownBrowserState
    /\ townRequests = SetToBag({BasicTownsCall})

\* fetchBasicTowns settles
BasicTownsSettle(outcome) ==
    /\ BagIn(BasicTownsCall, townRequests)
    /\ townRequests' = Settled(townRequests, BasicTownsCall)
    /\ townBrowser' =
         IF outcome = "ok"
         THEN [townBrowser EXCEPT !.allTowns = BasicTowns, !.loading = FALSE]
         ELSE [townBrowser EXCEPT
                 !.error = <<ErrorMessage(outcome, "Failed to fetch towns data")>>,
                 !.loading = FALSE]
    /\ UNCHANGED <<storeVars, browserVars, statusVars, nationVars, playerVars, onlineVars>>

\* the button "Detailed View (Top 50)", disabled while loadingDetails
LoadDetailedView ==
    /\ townBrowser.error = <<>>
    /\ ~townBrowser.loadingDetails
    /\ townBrowser.allTowns # <<>>
    /\ LET top == FirstN(townBrowser.allTowns, TownQueryCount)
           topTownUuids == [i \in 1..Len(top) |-> top[i].uuid]
       IN  /\ townRequests' = Issue(townRequests, DetailedTownsCall(topTownUuids))
           /\ townBrowser' =
                FilterEffect(townBrowser,
                             [townBrowser EXCEPT !.loadingDetails = TRUE,
                                                 !.viewMode = "detailed"])
    /\ UNCHANGED <<storeVars, browserVars, statusVars, nationVars, playerVars, onlineVars>>

\* the button "Basic View"
SetViewModeBasic ==
    /\ townBrowser.error = <<>>
    /\ townBrowser.viewMode # "basic"
    /\ townBrowser' = FilterEffect(townBrowser,
                                   [townBrowser EXCEPT !.viewMode = "basic"])
    /\ UNCHANGED <<storeVars, browserVars, statusVars, nationVars, townRequests,
                   playerVars, onlineVars>>

\* fetchDetailedTowns settles: the catch block logs and empties detailedTowns
DetailedTownsSettle(r, outcome) ==
    /\ BagIn(r, townRequests)
    /\ r.fn = "fetchDetailedTowns"
    /\ townRequests' = Settled(townRequests, r)
    /\ townBrowser' =
         FilterEffect(townBrowser,
             IF outcome = "ok"
             THEN [townBrowser EXCEPT !.detailedTowns = TownDetails(r.query),
                                      !.loadingDetails = FALSE]
             ELSE [townBrowser EXCEPT !.detailedTowns = <<>>,
                                      !.loadingDetails = FALSE])
    /\ UNCHANGED <<storeVars, browserVars, statusVars, nationVars, playerVars, onlineVars>>

\* the controls of the detailed view
TownControls ==
    /\ townBrowser.error = <<>>
    /\ townBrowser.viewMode = "detailed"

TownSetSearchTerm(term) ==
    /\ TownControls
    /\ term # townBrowser.searchTerm
    /\ townBrowser' = FilterEffect(townBrowser,
                                   [townBrowser EXCEPT !.searchTerm = term])
    /\ UNCHANGED <<storeVars, browserVars, statusVars, nationVars, townRequests,
                   playerVars, onlineVars>>

TownSetSelectedNation(nation) ==
    /\ TownControls
    /\ nation # townBrowser.selectedNation
    /\ nation \in {AllNations} \cup UniqueNations(townBrowser.detailedTowns)
    /\ townBrowser' = FilterEffect(townBrowser,
                                   [townBrowser EXCEPT !.selectedNation = nation])
    /\ UNCHANGED <<storeVars, browserVars, statusVars, nationVars, townRequests,
                   playerVars, onlineVars>>

TownSetSortBy(key) ==
    /\ TownControls
    /\ key # townBrowser.sortBy
    /\ townBrowser' = FilterEffect(townBrowser,
                                   [townBrowser EXCEPT !.sortBy = key])
    /\ UNCHANGED <<storeVars, browserVars, statusVars, nationVars, townRequests,
                   playerVars, onlineVars>>

NextTown ==
    \/ \E o \in {"ok"} \cup Failures : BasicTownsSettle(o)
    \/ LoadDetailedView
    \/ SetViewModeBasic
    \/ \E r \in BagToSet(townRequests), o \in {"ok"} \cup Failures :
          DetailedTownsSettle(r, o)
    \/ \E t \in TownSearchTerms : TownSetSearchTerm(t)
    \/ \E n \in {AllNations} \cup UniqueNations(TownData) : TownSetSelectedNation(n)
    \/ \E k \in TownSortKeys : TownSetSortBy(k)

SpecTown == InitTown /\ [][NextTown]_vars

----------------------------------------------------------------------------
(* PlayerLookup.tsx, part_001, part_002: the player search.  A search in   *)
(* flight is the trimmed name it asks for.                                 *)

Versions == {"tsx", "p1", "p2"}

\* what the user may have typed into the input
PlayerTerms == { <<>>, <<" ">>, <<"a">>, <<"b", " ">> }

\* str.trim()
Trim(str) ==
    LET kept == { i \in 1..Len(str) : str[i] # " " }
    IN  IF kept = {} THEN <<>>
        ELSE SubSeq(str, CHOOSE i \in kept : \A j \in kept : i <= j,
                         CHOOSE i \in kept : \A j \in kept : i >= j)

\* how the request of a search can end: a player, an empty answer, a non-OK
\* response, a network error
PlayerOutcomes == {"player", "empty"} \cup Failures

\* the message the catch block gives to setError
PlayerError(v, outcome) ==
    IF outcome = "empty" THEN "Player not found"
    ELSE IF outcome = "http"
    THEN IF v = "tsx" THEN "HTTP error! status: 500"
         ELSE IF v = "p1" THEN "API request failed with status 500"
         ELSE "Failed to fetch player data"
    ELSE IF v = "p1"
    THEN "Network error - please check your connection and try again"
    ELSE "Failed to fetch"

\* the Search button: disabled={loading || !searchTerm.trim()}
ButtonEnabled(pl) == ~pl.loading /\ Trim(pl.searchTerm) # <<>>

\* the input: disabled={loading} in PlayerLookup.tsx and part_001
InputEnabled(pl) == pl.version = "p2" \/ ~pl.loading

\* searchPlayer up to its await: PlayerLookup.tsx and part_001 return at once
\* for an empty name, part_002 has no such test; part_001 and part_002 also
\* call setPlayerData(null)
SearchPlayer ==
    IF playerLookup.version # "p2" /\ Trim(playerLookup.searchTerm) = <<>>
    THEN UNCHANGED playerVars
    ELSE /\ playerLookup' =
               [playerLookup EXCEPT
                   !.loading = TRUE,
                   !.error = <<>>,
                   !.hasSearched = (playerLookup.version # "p2"),
                   !.playerData = IF playerLookup.version = "tsx" THEN @ ELSE <<>>]
         /\ playerRequests' = Issue(playerRequests, Trim(playerLookup.searchTerm))

InitPlayer ==
    /\ InitVisitStore
    /\ helper = "ds"
    /\ lsOkTimes = <<>>
    /\ InitBrowser
    /\ StatusIdle
    /\ NationIdle
    /\ TownIdle
    /\ OnlineIdle
    /\ \E v \in Versions : playerLookup = PlayerLookupState(v)
    /\ playerRequests = EmptyBag

\* onChange of the input
PlayerSetSearchTerm(term) ==
    /\ InputEnabled(playerLookup)
    /\ playerLookup' = [playerLookup EXCEPT !.searchTerm = term]
    /\ UNCHANGED <<storeVars, browserVars, statusVars, nationVars, townVars,
                   playerRequests, onlineVars>>

\* PlayerLookup.tsx and part_001: the user clicks the submit button or presses
\* Enter in the form; the browser submits the form, and handleSubmit runs,
\* only while the submit button is not disabled
SubmitForm ==
    /\ playerLookup.version \in {"tsx", "p1"}
    /\ IF ButtonEnabled(playerLookup) THEN SearchPlayer
       ELSE UNCHANGED playerVars
    /\ UNCHANGED <<storeVars, browserVars, statusVars, nationVars, townVars,
                   onlineVars>>

\* part_002: the user clicks the button, onClick={searchPlayer}
ClickSearch ==
    /\ playerLookup.version = "p2"
    /\ IF ButtonEnabled(playerLookup) THEN SearchPlayer
       ELSE UNCHANGED playerVars
    /\ UNCHANGED <<storeVars, browserVars, statusVars, nationVars, townVars,
                   onlineVars>>

\* part_002: the user presses Enter in the input,
\* onKeyDown={e => e.key === 'Enter' && searchPlayer()}
EnterKey ==
    /\ playerLookup.version = "p2"
    /\ BagCardinality(playerRequests) < MaxRequests
    /\ SearchPlayer
    /\ UNCHANGED <<storeVars, browserVars, statusVars, nationVars, townVars,
                   onlineVars>>

\* the request of a search settles: setPlayerData(player), or the catch block
\* with setError(message) and setPlayerData(null); then finally
PlayerSettles(name, outcome) ==
    /\ BagIn(name, playerRequests)
    /\ playerRequests' = Settled(playerRequests, name)
    /\ playerLookup' =
          IF outcome = "player"
          THEN [playerLookup EXCEPT !.playerData = <<[name |-> name]>>,
                                    !.loading = FALSE]
          ELSE [playerLookup EXCEPT
                   !.error = <<PlayerError(playerLookup.version, outcome)>>,
                   !.playerData = <<>>,
                   !.loading = FALSE]
    /\ UNCHANGED <<storeVars, browserVars, statusVars, nationVars, townVars,
                   onlineVars>>

NextPlayer ==
    \/ \E t \in PlayerTerms : PlayerSetSearchTerm(t)
    \/ SubmitForm
    \/ ClickSearch
    \/ EnterKey
    \/ \E n \in BagToSet(playerRequests), o \in PlayerOutcomes :
          PlayerSettles(n, o)

SpecPlayer == InitPlayer /\ [][NextPlayer]_vars

----------------------------------------------------------------------------
(* ServerStatus.tsx (lines 580-793, 966-971, 1296-1306): the list of online *)
(* players.  fetchOnlinePlayers and loadMoreOnlinePlayers write only the    *)
(* state of the list.  A call in flight is [op, stage]: it awaits the GET   *)
(* of all players ("list") or is in its loop of batches ("batches").        *)

\* the players the batches can report as online
OnlineNames == {"p", "q"}

OnlineCall(op, stage) == [op |-> op, stage |-> stage]

\* faulty variant: setIsLoadingMore(false) follows the loop inside the try
MoreFinallyAfterSuccess(outcome) == outcome # "list"

\* finally { setIsLoadingMore(false) }
MoreFinally(outcome) == FALSE

\* the server data has been loaded and the staff list is known
InitOnline ==
    /\ InitVisitStore
    /\ helper = "ds"
    /\ lsOkTimes = <<>>
    /\ InitBrowser
    /\ StatusIdle
    /\ NationIdle
    /\ TownIdle
    /\ PlayerIdle
    /\ OnlineIdle

\* the effect on [serverData, staffList]: fetchOnlinePlayers up to its first
\* await
FetchOnlinePlayers ==
    /\ BagCardinality(onlineRequests) < MaxRequests
    /\ onlineList' = [onlineList EXCEPT !.playerLoadingStatus = "loading"]
    /\ onlineRequests' = Issue(onlineRequests, OnlineCall("fetch", "list"))
    /\ UNCHANGED <<storeVars, browserVars, statusVars, nationVars, townVars,
                   playerVars>>

\* the button "Load More Players", rendered below a non-empty list and
\* disabled while isLoadingMore: loadMoreOnlinePlayers up to its first await
LoadMoreOnlinePlayers ==
    /\ onlineList.onlinePlayers # {}
    /\ ~onlineList.isLoadingMore
    /\ onlineList' = [onlineList EXCEPT !.isLoadingMore = TRUE]
    /\ onlineRequests' = Issue(onlineRequests, OnlineCall("more", "list"))
    /\ UNCHANGED <<storeVars, browserVars, statusVars, nationVars, townVars,
                   playerVars>>

\* the GET of all players settles: a non-empty array starts the batches; an
\* empty answer or a failure throws into the catch block
OnlineListSettles(op, outcome) ==
    /\ BagIn(OnlineCall(op, "list"), onlineRequests)
    /\ IF outcome = "list"
       THEN /\ onlineRequests' =
                  Settled(onlineRequests, OnlineCall(op, "list"))
                      (+) SetToBag({OnlineCall(op, "batches")})
            /\ UNCHANGED onlineList
       ELSE /\ onlineRequests' = Settled(onlineRequests, OnlineCall(op, "list"))
            /\ onlineList' =
                  IF op = "fetch"
                  THEN [onlineList EXCEPT !.onlinePlayers = {},
                                          !.playerLoadingStatus = "error"]
                  ELSE [onlineList EXCEPT !.isLoadingMore = MoreFinally(outcome)]
    /\ UNCHANGED <<storeVars, browserVars, statusVars, nationVars, townVars,
                   playerVars>>

\* the loop of batches ends (a failed batch is caught inside the loop) with
\* the players found online
OnlineBatchesSettle(op, found) ==
    /\ BagIn(OnlineCall(op, "batches"), onlineRequests)
    /\ onlineRequests' = Settled(onlineRequests, OnlineCall(op, "batches"))
    /\ onlineList' =
          IF op = "fetch"
          THEN [onlineList EXCEPT
                   !.onlinePlayers = found,
                   !.playerLoadingStatus = IF found # {} THEN "success"
                                           ELSE "error"]
          ELSE [onlineList EXCEPT
                   !.onlinePlayers = @ \cup found,
                   !.isLoadingMore = MoreFinally("list")]
    /\ UNCHANGED <<storeVars, browserVars, statusVars, nationVars, townVars,
                   playerVars>>

NextOnline ==
    \/ FetchOnlinePlayers
    \/ LoadMoreOnlinePlayers
    \/ \E op \in {"fetch", "more"}, o \in {"list", "empty"} \cup Failures :
          OnlineListSettles(op, o)
    \/ \E op \in {"fetch", "more"}, found \in SUBSET OnlineNames :
          OnlineBatchesSettle(op, found)

SpecOnline == InitOnline /\ [][NextOnline]_vars

----------------------------------------------------------------------------
(* Properties of the stored history *)

EntryOf(stats, d) == Find(stats, d)

\* the n latest dates of a set of dates
LatestDates(S, n) == { d \in S : Cardinality({ e \in S : e > d }) < n }

\* C1: from a duplicate-free history, whatever saves and workflow runs
\* happen, the stats list kept in browser storage and the one kept in the
\* gist hold at most one entry per date.
NoDuplicateDates ==
    /\ NoDuplicates(ls.hist.stats)
    /\ NoDuplicates(gist.stats)

\* both stores have replaced the entry of the first day in place and have
\* pushed an entry for a later day
NoDuplicateDatesWitness ==
    /\ EntryOf(ls.hist.stats, FirstDay) # <<>>
    /\ EntryOf(ls.hist.stats, FirstDay)[1].residents # PastStats.residents
    /\ EntryOf(ls.hist.stats, FirstDay + 1) # <<>>
    /\ EntryOf(gist.stats, FirstDay) # <<>>
    /\ EntryOf(gist.stats, FirstDay)[1].residents # PastStats.residents
    /\ EntryOf(gist.stats, FirstDay + 1) # <<>>

WindowAfterSave(old, new, d) ==
    /\ Len(new) <= KeepDays
    /\ SortedByDate(new)
    /\ DatesOf(new) = LatestDates(DatesOf(old) \cup {d}, KeepDays)

LocalWindow ==
    [][ls'.hist # ls.hist =>
          WindowAfterSave(ls.hist.stats, ls'.hist.stats, DateOf(now))]_vars

GistWindow ==
    [][gist' # gist =>
          WindowAfterSave(gist.stats, gist'.stats, pipe.out.date)]_vars

\* C2: every save leaves at most 30 entries, sorted by ascending date, that
\* are exactly the 30 latest of the dates saved so far (the dates stored
\* before the save and the date saved), in browser storage and in the gist.
RollingWindow ==
    [][/\ ls'.hist # ls.hist =>
            WindowAfterSave(ls.hist.stats, ls'.hist.stats, DateOf(now))
       /\ gist' # gist =>
            WindowAfterSave(gist.stats, gist'.stats, pipe.out.date)]_vars

\* a save for date d, already stored, with values st: the entry of d holds
\* st afterwards and the entries of the other dates are what they were
OverwritesOnly(old, new, d, st) ==
    EntryOf(old, d) # <<>> =>
        /\ EntryOf(new, d) = <<NewStats(d, st)>>
        /\ DatesOf(new) = DatesOf(old)
        /\ \A e \in DatesOf(old) \ {d} : EntryOf(new, e) = EntryOf(old, e)

LocalLastWriteWins ==
    [][/\ \A st \in StatsInputs :
            (DsSave(st, TRUE) \/ GlSave(st, 1) \/ GlSave(st, 2)) =>
                OverwritesOnly(ls.hist.stats, ls'.hist.stats, DateOf(now), st)]_vars

\* C3: a save for a date that already has a stored entry leaves that entry
\* holding the values just saved and every other date's entry unchanged, in
\* browser storage and in the gist.
LastWriteWins ==
    [][/\ \A st \in StatsInputs :
            (DsSave(st, TRUE) \/ GlSave(st, 1) \/ GlSave(st, 2)) =>
                OverwritesOnly(ls.hist.stats, ls'.hist.stats, DateOf(now), st)
       /\ PatchStep(TRUE) =>
            OverwritesOnly(gist.stats, gist'.stats, pipe.out.date, pipe.out.st[1])]_vars

----------------------------------------------------------------------------
(* Properties of the guarded save and of the seven-day series *)

\* the last two completed saves are for the same date
TwoSavesSameDate ==
    /\ Len(lsOkTimes) = 2
    /\ DateOf(lsOkTimes[1]) = DateOf(lsOkTimes[2])

SavesAnHourApart ==
    TwoSavesSameDate => lsOkTimes[1] - lsOkTimes[2] >= HourSec

\* C4 as stated: with every save guarded by shouldSaveToday, two completed
\* saves for the same date are at least one hour apart, and a save is allowed
\* whenever today has no stored entry (so also when nothing was ever saved).
DebounceAsStated ==
    /\ SavesAnHourApart
    /\ EntryOf(ls.hist.stats, DateOf(now)) = <<>> => ShouldSaveToday = "true"

\* C4, amended: two completed guarded saves for the same date are at least one
\* hour apart; dataStorage.ts allows a save whenever today has no stored
\* entry; the gist-backed helper allows one whenever no last_save_time is
\* stored or the stored one is more than an hour old, whatever the date.
Debounce ==
    /\ SavesAnHourApart
    /\ (helper = "ds" /\ EntryOf(ls.hist.stats, DateOf(now)) = <<>>)
          => ShouldSaveToday = "true"
    /\ (helper = "gl" /\ ls.lastSave = <<>>) => ShouldSaveToday = "true"
    /\ (helper = "gl" /\ ls.lastSave # <<>>)
          => (ShouldSaveToday = "true" <=> now - ls.lastSave[1] > HourSec)

\* a second guarded save for a date has completed with dataStorage.ts, and
\* the first save of the next day was allowed
DebounceWitness ==
    /\ helper = "ds"
    /\ TwoSavesSameDate
    /\ DateOf(now) = DateOf(lsOkTimes[1]) + 1
    /\ ShouldSaveToday = "true"

\* C5: when the gist cannot be loaded (network error or non-OK response),
\* getLast7Days returns the seven-day series of the local backup.
FallbackToLocal ==
    [][(LoadHistoricalDataDone("network") \/ LoadHistoricalDataDone("http"))
          => last7' = GetLast7DaysLocal(ls, now)]_vars

\* C6: whichever helper wrote it, the value stored under
\* 'earthmc_historical_data' is an object {lastUpdated, stats}.
SameJsonShape ==
    [][ls'.hist # ls.hist => ls'.hist.shape = "doc"]_vars

----------------------------------------------------------------------------
(* Properties of the screens *)

\* fetchServerData calls in flight
InFlight == fetches.server + fetches.towns + fetches.details

\* C7: while ServerStatus is mounted both intervals are registered, the
\* interval has started one fetchServerData per five minutes since the mount
\* and the clock shows the last full second; once it is unmounted the
\* intervals are cleared and no poll is started and no clock tick made.
FixedIntervalPolling ==
    /\ [](mounted =>
            /\ timers.interval # <<>>
            /\ timers.timer # <<>>
            /\ polls = (now - MountTime) \div PollPeriod
            /\ currentTime = now - ((now - MountTime) % ClockPeriod))
    /\ [][~mounted =>
            /\ timers' = NoTimers
            /\ polls' = polls
            /\ fetches'.server <= fetches.server \/ chain' # chain
            /\ currentTime' = currentTime]_vars

\* the component was unmounted after a poll, and time has passed since
FixedIntervalPollingWitness ==
    /\ ~mounted
    /\ polls >= 1
    /\ now > currentTime

\* C8: unmounting removes neither initializeData's chain nor a
\* fetchServerData call in flight; after the unmount the chain goes on from
\* loadStaffList to fetchServerData, and a settling request makes its setter
\* calls: the staff list, the server data or the error, and loading false
\* when the call ends.
NotCancelledOnUnmount ==
    /\ [][mounted /\ ~mounted' => chain' = chain /\ fetches' = fetches]_vars
    /\ [][~mounted /\ chain = "staff" /\ chain' # chain =>
            /\ staffList' # "empty"
            /\ fetches'.server = fetches.server + 1
            /\ loading'
            /\ error' = <<>>]_vars
    /\ [][~mounted /\ fetches'.server < fetches.server =>
            \/ serverData' # <<>> /\ fetches'.towns = fetches.towns + 1
            \/ error' # <<>> /\ ~loading']_vars
    /\ [][~mounted /\ InFlight' < InFlight => ~loading']_vars

\* everything in flight at the unmount has settled after it, with the server
\* data set
NotCancelledOnUnmountWitness ==
    /\ ~mounted
    /\ updatedAfterUnmount
    /\ chain = "done"
    /\ fetches = NoFetches
    /\ staffList # "empty"
    /\ serverData # <<>>
    /\ ~loading

\* the result a fetchDetailedNations call in flight would set on success
ResultOf(r) ==
    NationDetails(TopUuidsTable[r.sortBy, r.searchTerm])

\* C9: a change of searchTerm or sortBy starts a fetchDetailedNations call
\* and leaves the calls in flight as they are; whenever one of the calls
\* ends, detailedNations and filteredNations both become its result (empty
\* when it failed), whether or not it was issued for the current searchTerm
\* and sortBy.
LastResponseWins ==
    /\ [][<<nationList'.searchTerm, nationList'.sortBy>>
             # <<nationList.searchTerm, nationList.sortBy>> =>
            nationRequests' = nationRequests (+)
                SetToBag({DetailedNationsCall(nationList'.sortBy,
                                              nationList'.searchTerm)})]_vars
    /\ [][DetailedCount(nationRequests') < DetailedCount(nationRequests) =>
            \E r \in DetailedCalls(nationRequests) :
                /\ nationRequests' = Settled(nationRequests, r)
                /\ nationList'.filteredNations = nationList'.detailedNations
                /\ \/ /\ r.awaiting = "details"
                      /\ nationList'.detailedNations = ResultOf(r)
                   \/ /\ nationList'.detailedNations = <<>>
                      /\ nationList'.error # <<>>]_vars

\* all calls have settled and the list shown is not the one of the current
\* searchTerm and sortBy
LastResponseWinsWitness ==
    /\ nationRequests = EmptyBag
    /\ nationList.error = <<>>
    /\ nationList.detailedNations # <<>>
    /\ nationList.filteredNations = nationList.detailedNations
    /\ nationList.detailedNations
          # NationDetails(TopUuidsTable[nationList.sortBy,
                                        nationList.searchTerm])

\* C10: whenever a fetch of TownBrowser fails (network error or non-OK
\* response), its error state is a message afterwards.
FailureSurfaced ==
    [][(\E o \in Failures :
          \/ BasicTownsSettle(o)
          \/ \E r \in BagToSet(townRequests) : DetailedTownsSettle(r, o))
          => townBrowser'.error # <<>>]_vars

TownNoRetry ==
    [][townBrowser.error # <<>> =>
          /\ townBrowser' = townBrowser
          /\ townRequests' = townRequests]_vars

\* the dates of the seven-day window, oldest first
WindowDate(t, k) == DateOf(t) - (WeekDays - k)

\* the chart row that shows an entry as it is stored, or the empty row
RowOf(found, d) ==
    IF found = <<>>
    THEN [date |-> d, residents |-> <<>>, towns |-> <<>>, nations |-> <<>>,
          onlinePlayers |-> <<>>]
    ELSE [date |-> d, residents |-> <<found[1].residents>>,
          towns |-> <<found[1].towns>>, nations |-> <<found[1].nations>>,
          onlinePlayers |-> <<found[1].onlinePlayers>>]

\* getLast7Days of dataStorage.ts returns seven elements, element k the
\* stored entry of the window's k-th date or null
SevenDaysReturned ==
    [][helper = "ds" /\ last7' # last7 =>
          /\ Len(last7') = WeekDays
          /\ \A k \in 1..WeekDays :
                last7'[k] = EntryOf(ls'.hist.stats, WindowDate(now, k))]_vars

\* C12: with dataStorage.ts, whenever loadHistoricalData sets the chart
\* history it has seven rows, oldest first, and row k shows the stored entry
\* dated today minus 7 - k days, or nothing when no entry is stored for that
\* date.
SevenDaySeries ==
    [][helper = "ds" /\ historicalData' # historicalData =>
          /\ Len(historicalData') = WeekDays
          /\ \A k \in 1..WeekDays :
                historicalData'[k] =
                    RowOf(EntryOf(ls'.hist.stats, WindowDate(now, k)),
                          WindowDate(now, k))]_vars

\* every detail request of the loop succeeds
AllDetailsOk == [i \in 1..Len(ServerTowns) |-> "ok"]

\* a list that is the ten richest towns of the server
RichestTowns(top) ==
    /\ Len(top) <= TopCount
    /\ \A i \in 1..Len(top) : top[i].balance > 0
    /\ \A i \in 1..Len(top) : \A j \in i..Len(top) :
          top[i].balance >= top[j].balance
    /\ \A t \in Elements(ServerTowns) \ Elements(top) :
          \A i \in 1..Len(top) : t.balance <= top[i].balance

\* every list given to setTopTowns has at most ten towns, each with a
\* positive balance, richest first
TopTownsShape ==
    [][topTowns' # topTowns =>
          /\ Len(topTowns') <= TopCount
          /\ \A i \in 1..Len(topTowns') : topTowns'[i].balance > 0
          /\ \A i \in 1..Len(topTowns') : \A j \in i..Len(topTowns') :
                topTowns'[i].balance >= topTowns'[j].balance]_vars

\* C13: when fetchServerData ends with every request successful, topTowns
\* has at most ten towns, each with a positive balance, in non-increasing
\* order of balance, and no town of the towns endpoint left out of it is
\* richer than a town in it.
TopTenByBalance ==
    [][DetailsSettle(AllDetailsOk) => RichestTowns(topTowns')]_vars

AmongRecent(e, stats, d, n) ==
    Cardinality({ x \in { stats[i].date : i \in 1..Len(stats) } \cup {d} :
                    x > e.date }) < n

\* C15: a run of the workflow that changes the gist keeps every entry the
\* gist held for a date other than the run's date, unless the entry is not
\* among the 30 most recent dates; whether the download of the gist
\* succeeded or failed makes no difference.
MergePreservesHistory ==
    [][gist' # gist =>
          \A i \in 1..Len(gist.stats) :
             /\ gist.stats[i].date # pipe.out.date
             /\ AmongRecent(gist.stats[i], gist.stats, pipe.out.date, KeepDays)
             => \E j \in 1..Len(gist'.stats) : gist'.stats[j] = gist.stats[i]]_vars

\* the same for the runs whose download of the gist succeeded
MergeAfterDownload ==
    [][gist' # gist /\ pipe.current = gist =>
          \A i \in 1..Len(gist.stats) :
             /\ gist.stats[i].date # pipe.out.date
             /\ AmongRecent(gist.stats[i], gist.stats, pipe.out.date, KeepDays)
             => \E j \in 1..Len(gist'.stats) : gist'.stats[j] = gist.stats[i]]_vars

\* the save that saveCurrentStats attempts meets a storage failure: setItem
\* throws (dataStorage.ts has one setItem call, part_005 two)
SaveFails(writes) ==
    /\ ShouldSaveToday = "true"
    /\ IF helper = "ds" THEN writes = 0 ELSE writes < 2

\* C17: when the save that saveCurrentStats attempts fails, local storage is
\* left as it was and the history is not loaded again.
SaveFailureAtomic ==
    [][\A st \in StatsInputs, writes \in 0..2 :
          ServerDataChanged(st, writes) /\ SaveFails(writes) =>
              /\ ls' = ls
              /\ histLoad' = histLoad
              /\ historicalData' = historicalData]_vars

\* the same for the build with dataStorage.ts alone
DsSaveFailureAtomic ==
    [][\A st \in StatsInputs, writes \in 0..2 :
          helper = "ds" /\ ServerDataChanged(st, writes) /\ SaveFails(writes) =>
              /\ ls' = ls
              /\ histLoad' = histLoad
              /\ last7' = last7
              /\ historicalData' = historicalData]_vars

----------------------------------------------------------------------------
(* Properties of PlayerLookup *)

\* the user asks for a search: button, form submit or Enter key
SearchTriggered == SubmitForm \/ ClickSearch \/ EnterKey

\* C18: in each version of PlayerLookup, asking for a search (button, form
\* submit, Enter key) while the trimmed name is empty sends no request and
\* changes no state of the component.
NoEmptySearch ==
    [][SearchTriggered /\ Trim(playerLookup.searchTerm) = <<>> =>
          UNCHANGED playerVars]_vars

\* the same for PlayerLookup.tsx and part_001, and for part_002's button
NoEmptySearchGuarded ==
    [][/\ Trim(playerLookup.searchTerm) = <<>>
       /\ \/ SubmitForm
          \/ ClickSearch
       => UNCHANGED playerVars]_vars

\* C19: PlayerLookup never has two searches in flight, and while loading is
\* true no action of the user starts another one.
SingleSearch ==
    /\ [](BagCardinality(playerRequests) <= 1)
    /\ [][playerLookup.loading =>
            BagCardinality(playerRequests') <= BagCardinality(playerRequests)]_vars

\* the same for PlayerLookup.tsx and part_001
SingleSearchByForm ==
    /\ [](playerLookup.version # "p2" => BagCardinality(playerRequests) <= 1)
    /\ [][playerLookup.version # "p2" /\ playerLookup.loading =>
            BagCardinality(playerRequests') <= BagCardinality(playerRequests)]_vars

\* C20: with no search in flight, error and playerData are not both set; a
\* search that fails leaves playerData null and one that succeeds leaves
\* error null.
ResultOrError ==
    /\ [](playerRequests = EmptyBag =>
            playerLookup.error = <<>> \/ playerLookup.playerData = <<>>)
    /\ [][\A n \in BagToSet(playerRequests), o \in PlayerOutcomes :
            PlayerSettles(n, o) =>
               IF o = "player" THEN playerLookup'.error = <<>>
               ELSE playerLookup'.playerData = <<>>]_vars

\* the same for PlayerLookup.tsx and part_001
ResultOrErrorByForm ==
    /\ [](playerLookup.version # "p2" /\ playerRequests = EmptyBag =>
            playerLookup.error = <<>> \/ playerLookup.playerData = <<>>)
    /\ [][\A n \in BagToSet(playerRequests), o \in PlayerOutcomes :
            playerLookup.version # "p2" /\ PlayerSettles(n, o) =>
               IF o = "player" THEN playerLookup'.error = <<>>
               ELSE playerLookup'.playerData = <<>>]_vars

\* part_002 with at most one search in flight has them exclusive too
ResultOrErrorAlone ==
    [][\A n \in BagToSet(playerRequests), o \in PlayerOutcomes :
          PlayerSettles(n, o) /\ BagCardinality(playerRequests) = 1
          /\ playerLookup.error = <<>> =>
             IF o = "player" THEN playerLookup'.error = <<>>
             ELSE playerLookup'.playerData = <<>>]_vars

----------------------------------------------------------------------------
(* Loading flags *)

\* fetchServerData calls in flight
ServerCalls(f) == f.server + f.towns + f.details

NationLoadingClears ==
    /\ [][CopiesIn(BasicNationsCall, nationRequests')
             < CopiesIn(BasicNationsCall, nationRequests) =>
                nationList'.loading = FALSE]_vars
    /\ [][DetailedCount(nationRequests') < DetailedCount(nationRequests) =>
            nationList'.loadingDetails = FALSE]_vars
    /\ [](~BagIn(BasicNationsCall, nationRequests) => nationList.loading = FALSE)
    /\ [](DetailedCount(nationRequests) = 0 =>
            nationList.loadingDetails = FALSE)

\* the same for fetchBasicTowns and fetchDetailedTowns
TownLoadingClears ==
    /\ [](~BagIn(BasicTownsCall, townRequests) => townBrowser.loading = FALSE)
    /\ [](BagCardinality(townRequests) = 0 =>
            townBrowser.loadingDetails = FALSE)
    /\ [][BagCardinality(townRequests') < BagCardinality(townRequests)
          /\ BagIn(BasicTownsCall, townRequests') = BagIn(BasicTownsCall, townRequests)
          => townBrowser'.loadingDetails = FALSE]_vars

\* the same for searchPlayer
PlayerLoadingClears ==
    /\ [][BagCardinality(playerRequests') < BagCardinality(playerRequests) =>
            playerLookup'.loading = FALSE]_vars
    /\ [](playerRequests = EmptyBag => playerLookup.loading = FALSE)

\* the same for loadMoreOnlinePlayers
MoreCalls(reqs) ==
    CopiesIn(OnlineCall("more", "list"), reqs)
        + CopiesIn(OnlineCall("more", "batches"), reqs)

MoreLoadingClears ==
    /\ [][MoreCalls(onlineRequests') < MoreCalls(onlineRequests) =>
            onlineList'.isLoadingMore = FALSE]_vars
    /\ [](onlineList.isLoadingMore <=> MoreCalls(onlineRequests) = 1)

----------------------------------------------------------------------------
(* Detail requests *)

BoundedNationRequests ==
    [](\A r \in DetailedCalls(nationRequests) : Len(r.topUuids) <= TopUuidCount)

\* more than 50 nations match and the POST in flight asks for 50
BoundedNationRequestsWitness ==
    /\ Len(NationData) > TopUuidCount
    /\ \E r \in DetailedCalls(nationRequests) :
          /\ r.awaiting = "details"
          /\ r.searchTerm = <<>>
          /\ Len(r.topUuids) = TopUuidCount

\* no fetchDetailedTowns call is in flight
NoDetailFetch == \A r \in BagToSet(townRequests) : r.fn # "fetchDetailedTowns"

\* C22: in the detailed view of TownBrowser, with no detail fetch in flight,
\* filteredTowns is detailedTowns filtered by searchTerm and selectedNation
\* and sorted by sortBy, so that every town of filteredTowns is one of
\* detailedTowns; a detail fetch that failed or returned nothing makes no
\* difference.
FilteredConsistent ==
    [](townBrowser.viewMode = "detailed" /\ NoDetailFetch =>
          /\ townBrowser.filteredTowns = FilterTowns(townBrowser)
          /\ Elements(townBrowser.filteredTowns)
                \subseteq Elements(townBrowser.detailedTowns))

\* the same while detailedTowns is not empty
FilteredConsistentLoaded ==
    [](/\ townBrowser.viewMode = "detailed"
       /\ NoDetailFetch
       /\ townBrowser.detailedTowns # <<>>
       => townBrowser.filteredTowns = FilterTowns(townBrowser))

\* C23: whenever a fetchDetailedNations call is in flight, loadingDetails is
\* true, also when calls overlap and one of them has ended.
LoadingCovers ==
    [](DetailedCount(nationRequests) > 0 => nationList.loadingDetails)

\* the same for fetchServerData and loading
ServerLoadingCovers ==
    [](ServerCalls(fetches) > 0 => loading)

\* loadingDetails is true while the only call started so far is in flight, and
\* it becomes false only in a step that ends a call
LoadingCoversAlone ==
    [][/\ nationList.loadingDetails /\ ~nationList'.loadingDetails
          => DetailedCount(nationRequests') < DetailedCount(nationRequests)
       /\ DetailedCount(nationRequests') > DetailedCount(nationRequests)
          => nationList'.loadingDetails]_vars

====
